---- MODULE Spec2Model ----
(***************************************************************************)
(* Health Records API routes of the ABDM hospital service                  *)
(* (src/abdm-hospital/app/api/routes/health_records.py).                   *)
(*                                                                         *)
(* The relational store is a set of HealthRecord rows and a set of Patient *)
(* ids.  Each endpoint is one action that runs the whole handler and       *)
(* leaves its HTTP response in resp; Deliver hands the response to the     *)
(* client before the next handler step runs.  delete_health_record is      *)
(* split at its two store accesses (the SELECT, then delete+commit), which *)
(* is where requests served by different workers interleave.               *)
(***************************************************************************)
EXTENDS Integers, Sequences, FiniteSets, TLC

VARIABLES
    patients,   \* ids of the rows of table Patient
    store,      \* rows of table HealthRecord
    usedIds,    \* record ids uuid4 has handed out or that were ever stored
    created,    \* history: the create requests that succeeded, by record id
    deleted,    \* history: <<patient, record>> ids a delete reported DELETED
    dreq,       \* delete requests between their SELECT and their commit
    fs,         \* paths that exist in the server's file system
    resp,       \* the response of the handler step that just ran
    parsed      \* fence stripping: the text handed to json.loads

vars == <<patients, store, usedIds, created, deleted, dreq, fs, resp, parsed>>

----------------------------------------------------------------------------
(* Bounds of the model *)

\* record ids are 1..MaxRecIds; id 1 is the record ingested before start
MaxRecIds == 2
\* longest inner text put between the fences
MaxInner == 4

----------------------------------------------------------------------------
(* Identifiers.  An identifier arrives as a string of the URL path; the    *)
(* string <<form, n>> is the text of UUID n written in form "canon"        *)
(* (lower-case hyphenated, what str() prints) or "upper" (upper-case hex,  *)
(* which uuid.UUID also accepts), or text that is no UUID ("bad").         *)

Invalid == 0
NoId == <<"none", 0>>
BadId == <<"bad", 0>>

PatientUUIDs == {1, 2, 3}
RecUUIDs == 1..MaxRecIds

PatientIdStrs ==
    {<<"canon", p>> : p \in PatientUUIDs} \cup {<<"upper", 1>>, BadId}
RecordIdStrs ==
    {<<"canon", r>> : r \in RecUUIDs} \cup {BadId}

\* uuid.UUID(s): the UUID value, or Invalid where the code gets ValueError
UUIDParse(s) == IF s[1] \in {"canon", "upper"} THEN s[2] ELSE Invalid

\* str(u) of a UUID value
UUIDStr(u) == <<"canon", u>>

----------------------------------------------------------------------------
(* Dates.  recordDate is a string; the row holds a datetime.               *)

NoDate == <<0, 0, 0, 0, 0, 0>>

\* datetime.fromisoformat(s); NoDate where the code gets ValueError
FromIsoFormat(s) ==
    CASE s = "2024-01-15"          -> <<2024, 1, 15, 0, 0, 0>>
      [] s = "2024-01-15T00:00:00" -> <<2024, 1, 15, 0, 0, 0>>
      [] s = "2024-02-01T09:30:00" -> <<2024, 2, 1, 9, 30, 0>>
      [] OTHER                     -> NoDate

\* d.isoformat()
IsoFormat(d) ==
    CASE d = <<2024, 1, 15, 0, 0, 0>> -> "2024-01-15T00:00:00"
      [] d = <<2024, 2, 1, 9, 30, 0>> -> "2024-02-01T09:30:00"
      [] OTHER                        -> "0000-00-00T00:00:00"

----------------------------------------------------------------------------
(* Rows of table HealthRecord and their HTTP serialisation.  The columns   *)
(* the routes never read back (data_text, was_encrypted, decryption_status,*)
(* delivery_attempt, created_at, updated_at) are left out of the row.      *)

Null == "NULL"
NoFilter == "NO-FILTER"

Hospitals == {"HOSP-B"}
RecordTypes == {"PRESCRIPTION", "LAB_REPORT"}

\* HealthRecord(id=..., patient_id=..., ..., source_hospital=None, request_id=None)
NewRecord(id, patient_uuid, body) ==
    [id |-> id,
     patient_id |-> patient_uuid,
     record_type |-> body.recordType,
     record_date |-> FromIsoFormat(body.recordDate),
     data_json |-> body.data,
     source_hospital |-> Null,
     request_id |-> Null]

\* the dict the handlers return for a row
Serialize(r) ==
    [id |-> UUIDStr(r.id),
     type |-> r.record_type,
     date |-> IsoFormat(r.record_date),
     sourceHospital |-> r.source_hospital,
     data |-> r.data_json,
     requestId |-> r.request_id]

\* the record the external ingestion flow stored before this process started
IngestedRecord ==
    [id |-> 1,
     patient_id |-> 1,
     record_type |-> "LAB_REPORT",
     record_date |-> <<2024, 2, 1, 9, 30, 0>>,
     data_json |-> "hb-11.2",
     source_hospital |-> "HOSP-B",
     request_id |-> "req-77"]

\* bodies of POST /{patient_id}: CreateHealthRecordRequest plus an "id" key
\* a client may add (pydantic drops keys the schema does not declare)
CreateBodies ==
    { [recordType |-> "PRESCRIPTION", recordDate |-> "2024-01-15",
       data |-> "rx-amoxicillin", id |-> c] : c \in {NoId, <<"canon", 1>>, <<"canon", 2>>} }
    \cup
    { [recordType |-> "LAB_REPORT", recordDate |-> "2024-02-01T09:30:00",
       data |-> "cbc-panel", id |-> NoId],
      [recordType |-> "PRESCRIPTION", recordDate |-> "15/01/2024",
       data |-> "rx-amoxicillin", id |-> NoId] }

----------------------------------------------------------------------------
(* Store access *)

\* select(Patient).where(Patient.id == patient_uuid).scalar_one_or_none()
PatientExists(pats, patient_uuid) == patient_uuid \in pats

\* faulty variant: the SELECT filters on the record id alone
SelectRecordAnyPatient(st, record_uuid, patient_uuid) ==
    {r \in st : r.id = record_uuid}

\* select(HealthRecord).where(and_(id == record_uuid, patient_id == patient_uuid))
SelectRecord(st, record_uuid, patient_uuid) ==
    {r \in st : r.id = record_uuid /\ r.patient_id = patient_uuid}

\* db.add(new_record); db.commit()
DbAdd(st, rec) == st \cup {rec}

\* faulty variant: a soft delete that leaves the row in the table
DbDeleteKeepsRow(st, rec) == st

\* faulty variant: the delete cascades to the patient's other rows
DbDeleteCascade(st, rec) == {r \in st : r.patient_id # rec.patient_id}

\* db.delete(record); db.commit(): DELETE ... WHERE id = record.id
DbDelete(st, rec) == {r \in st : r.id # rec.id}

\* faulty variant: the id comes from the request body when it carries one
FreshIdsFromClient(used, client_id) ==
    IF client_id # NoId THEN {UUIDParse(client_id)} ELSE RecUUIDs \ used

\* uuid.uuid4(): a value no row and no request has carried so far
FreshIds(used, client_id) == RecUUIDs \ (used \cup {UUIDParse(client_id)})

----------------------------------------------------------------------------
(* app.services.health_data_service: the query layer the routes import.    *)

\* get_health_records_for_patient(db, patient_id, record_type, source_hospital)
GetHealthRecordsForPatient(st, patient_id, record_type, source_hospital) ==
    IF UUIDParse(patient_id) = Invalid THEN {}
    ELSE { Serialize(r) : r \in
            { x \in st : /\ x.patient_id = UUIDParse(patient_id)
                         /\ (record_type = NoFilter \/ x.record_type = record_type)
                         /\ (source_hospital = NoFilter
                                \/ x.source_hospital = source_hospital) } }

\* store reads get_health_records_for_patient makes: none for a malformed id
ServiceReads(patient_id) == IF UUIDParse(patient_id) = Invalid THEN 0 ELSE 1

\* get_external_health_records(db, patient_id)
GetExternalHealthRecords(st, patient_id) ==
    { Serialize(r) : r \in
        { x \in st : x.patient_id = UUIDParse(patient_id)
                        /\ x.source_hospital # Null } }

\* get_health_record_summary(db, patient_id)
GetHealthRecordSummary(st, patient_id) ==
    LET mine == {x \in st : x.patient_id = UUIDParse(patient_id)}
        types == {x.record_type : x \in mine}
        srcs == {x.source_hospital : x \in mine} \ {Null}
    IN [totalRecords |-> Cardinality(mine),
        byType |-> [t \in types |->
                        Cardinality({x \in mine : x.record_type = t})],
        bySource |-> [h \in srcs |->
                        Cardinality({x \in mine : x.source_hospital = h})]]

----------------------------------------------------------------------------
(* Responses *)

NoBody == {}

Response(op, status, pid, rid, body, ops) ==
    [op |-> op, status |-> status, pid |-> pid, rid |-> rid, body |-> body,
     storeOps |-> ops,
     priorIds |-> {}, clientId |-> NoId,     \* create: ids stored before, body "id"
     stale |-> FALSE,                        \* delete: row was gone at commit
     wrote |-> {},                           \* scan: paths the request created
     keySet |-> TRUE, invoked |-> "none",    \* scan: API key set, collaborator use
     ocr |-> <<"none">>,                     \* scan: the text OCR returned
     raised |-> "NULL"]                      \* scan: what extraction raised

NoResp == Response("none", 0, NoId, NoId, NoBody, 0)

Idle == resp = NoResp

\* the response is sent; the next handler step may run
Deliver ==
    /\ resp # NoResp
    /\ resp' = NoResp
    /\ UNCHANGED <<patients, store, usedIds, created, deleted, dreq, fs, parsed>>

----------------------------------------------------------------------------
(* Record endpoints *)

Frame == UNCHANGED <<patients, store, usedIds, created, deleted, dreq, fs, parsed>>

\* GET /: patients that have at least one record, with their record counts
list_all_patients_with_records ==
    /\ Idle
    /\ resp' = Response("list_all", 200, NoId, NoId,
                { [patientId |-> UUIDStr(p),
                   recordCount |-> Cardinality({r \in store : r.patient_id = p})]
                    : p \in {q \in patients : \E r \in store : r.patient_id = q} },
                1 + Cardinality(patients))
    /\ Frame

\* try: uuid.UUID(patient_id) / select(Patient) / if not patient
\* 400 or 404 when the check stops the handler, 0 when it lets it go on
PatientCheck(pats, patient_id) ==
    IF UUIDParse(patient_id) = Invalid THEN 400
    ELSE IF ~PatientExists(pats, UUIDParse(patient_id)) THEN 404
    ELSE 0

\* store reads PatientCheck makes
CheckReads(patient_id) == IF UUIDParse(patient_id) = Invalid THEN 0 ELSE 1

\* the tail the three list handlers share: "if not records: ... return []"
ListResponse(op, pats, patient_id, records, reads) ==
    IF records = {}
    THEN IF PatientCheck(pats, patient_id) # 0
         THEN Response(op, PatientCheck(pats, patient_id), patient_id, NoId,
                       NoBody, reads + CheckReads(patient_id))
         ELSE Response(op, 200, patient_id, NoId, {},
                       reads + CheckReads(patient_id))
    ELSE Response(op, 200, patient_id, NoId, records, reads)

\* GET /{patient_id}?record_type=&source_hospital=
list_health_records(patient_id, record_type, source_hospital) ==
    /\ Idle
    /\ resp' = ListResponse("list", patients, patient_id,
                  GetHealthRecordsForPatient(store, patient_id, record_type,
                                             source_hospital),
                  ServiceReads(patient_id))
    /\ Frame

\* GET /{patient_id}/by-type/{record_type}
get_records_by_type(patient_id, record_type) ==
    /\ Idle
    /\ resp' = ListResponse("by_type", patients, patient_id,
                  GetHealthRecordsForPatient(store, patient_id, record_type,
                                             NoFilter),
                  ServiceReads(patient_id))
    /\ Frame

\* GET /{patient_id}/from-hospital/{hospital_id}
get_records_from_hospital(patient_id, hospital_id) ==
    /\ Idle
    /\ resp' = ListResponse("from_hospital", patients, patient_id,
                  GetHealthRecordsForPatient(store, patient_id, NoFilter,
                                             hospital_id),
                  ServiceReads(patient_id))
    /\ Frame

\* GET /{patient_id}/summary
get_patient_health_summary(patient_id) ==
    /\ Idle
    /\ resp' =
        IF PatientCheck(patients, patient_id) # 0
        THEN Response("summary", PatientCheck(patients, patient_id), patient_id,
                      NoId, NoBody, CheckReads(patient_id))
        ELSE Response("summary", 200, patient_id, NoId,
                      {GetHealthRecordSummary(store, patient_id)}, 2)
    /\ Frame

\* GET /{patient_id}/external
list_external_health_records(patient_id) ==
    /\ Idle
    /\ resp' =
        IF PatientCheck(patients, patient_id) # 0
        THEN Response("external", PatientCheck(patients, patient_id), patient_id,
                      NoId, NoBody, CheckReads(patient_id))
        ELSE Response("external", 200, patient_id, NoId,
                      GetExternalHealthRecords(store, patient_id), 2)
    /\ Frame

\* GET /{patient_id}/{record_id}
get_health_record_details(patient_id, record_id) ==
    /\ Idle
    /\ resp' =
        IF UUIDParse(patient_id) = Invalid \/ UUIDParse(record_id) = Invalid
        THEN Response("get", 400, patient_id, record_id, NoBody, 0)
        ELSE LET found == SelectRecord(store, UUIDParse(record_id),
                                       UUIDParse(patient_id))
             IN IF found = {}
                THEN Response("get", 404, patient_id, record_id, NoBody, 1)
                ELSE Response("get", 200, patient_id, record_id,
                              {Serialize(r) : r \in found}, 1)
    /\ Frame

\* POST /{patient_id}
create_health_record(patient_id, body) ==
    /\ Idle
    /\ \/ /\ PatientCheck(patients, patient_id) # 0
          /\ resp' = Response("create", PatientCheck(patients, patient_id),
                              patient_id, NoId, NoBody, CheckReads(patient_id))
          /\ UNCHANGED <<store, usedIds, created>>
       \/ \* datetime.fromisoformat raises ValueError: nothing catches it
          /\ PatientCheck(patients, patient_id) = 0
          /\ FromIsoFormat(body.recordDate) = NoDate
          /\ resp' = Response("create", 500, patient_id, NoId, NoBody, 1)
          /\ UNCHANGED <<store, usedIds, created>>
       \/ /\ PatientCheck(patients, patient_id) = 0
          /\ FromIsoFormat(body.recordDate) # NoDate
          /\ \E id \in FreshIds(usedIds, body.id) :
                LET new_record == NewRecord(id, UUIDParse(patient_id), body)
                IN /\ store' = DbAdd(store, new_record)
                   /\ usedIds' = usedIds \cup {id}
                   /\ created' = created \cup
                        {[id |-> id, patient_id |-> UUIDParse(patient_id),
                          recordType |-> body.recordType,
                          recordDate |-> body.recordDate,
                          data |-> body.data]}
                   /\ resp' = [Response("create", 200, patient_id, NoId,
                                        {Serialize(new_record)}, 3)
                                 EXCEPT !.priorIds = {r.id : r \in store},
                                        !.clientId = body.id]
    /\ UNCHANGED <<patients, deleted, dreq, fs, parsed>>

\* the workers that may each be serving one DELETE at a time
DeleteWorkers == {"w1", "w2"}

NoDelete == [pc |-> "idle", pid |-> NoId, rid |-> NoId, rec |-> IngestedRecord]

\* DELETE /{patient_id}/{record_id}, up to "if not record"
delete_lookup(w, patient_id, record_id) ==
    /\ Idle
    /\ dreq[w].pc = "idle"
    /\ IF UUIDParse(patient_id) = Invalid \/ UUIDParse(record_id) = Invalid
       THEN /\ resp' = Response("delete", 400, patient_id, record_id, NoBody, 0)
            /\ UNCHANGED dreq
       ELSE LET found == SelectRecord(store, UUIDParse(record_id),
                                      UUIDParse(patient_id))
            IN IF found = {}
               THEN /\ resp' = Response("delete", 404, patient_id, record_id,
                                        NoBody, 1)
                    /\ UNCHANGED dreq
               ELSE /\ dreq' = [dreq EXCEPT ![w] =
                                  [pc |-> "found", pid |-> patient_id,
                                   rid |-> record_id,
                                   rec |-> CHOOSE r \in found : TRUE]]
                    /\ UNCHANGED resp
    /\ UNCHANGED <<patients, store, usedIds, created, deleted, fs, parsed>>

DeletedBody(record_id) == {[status |-> "DELETED", recordId |-> record_id]}

\* DELETE /{patient_id}/{record_id}: db.delete(record); db.commit(); return
delete_commit(w) ==
    /\ Idle
    /\ dreq[w].pc = "found"
    /\ dreq' = [dreq EXCEPT ![w] = NoDelete]
    /\ IF \E r \in store : r.id = dreq[w].rec.id
       THEN /\ store' = DbDelete(store, dreq[w].rec)
            /\ deleted' = deleted \cup {<<dreq[w].rec.patient_id, dreq[w].rec.id>>}
            /\ resp' = Response("delete", 200, dreq[w].pid, dreq[w].rid,
                                DeletedBody(dreq[w].rid), 3)
       ELSE \* the row went away after the SELECT: the DELETE matches no row.
            \* The ORM warns and the handler goes on, or (a versioned mapper)
            \* raises StaleDataError, which nothing catches.
            /\ UNCHANGED store
            /\ \/ /\ deleted' = deleted \cup {<<dreq[w].rec.patient_id, dreq[w].rec.id>>}
                  /\ resp' = [Response("delete", 200, dreq[w].pid, dreq[w].rid,
                                       DeletedBody(dreq[w].rid), 3)
                                EXCEPT !.stale = TRUE]
               \/ /\ UNCHANGED deleted
                  /\ resp' = [Response("delete", 500, dreq[w].pid, dreq[w].rid,
                                       NoBody, 3)
                                EXCEPT !.stale = TRUE]
    /\ UNCHANGED <<patients, usedIds, created, fs, parsed>>

----------------------------------------------------------------------------
(* Text.  A text is a sequence of characters.                              *)

Whitespace == {" ", "\n"}

RECURSIVE LStrip(_)
LStrip(t) ==
    IF t # <<>> /\ Head(t) \in Whitespace THEN LStrip(Tail(t)) ELSE t

RECURSIVE RStrip(_)
RStrip(t) ==
    IF t # <<>> /\ t[Len(t)] \in Whitespace
    THEN RStrip(SubSeq(t, 1, Len(t) - 1))
    ELSE t

\* str.strip()
Strip(t) == RStrip(LStrip(t))

\* str.startswith(p)
StartsWith(t, p) == Len(t) >= Len(p) /\ SubSeq(t, 1, Len(p)) = p

\* str.endswith(p)
EndsWith(t, p) ==
    Len(t) >= Len(p) /\ SubSeq(t, Len(t) - Len(p) + 1, Len(t)) = p

\* str.removeprefix(p)
RemovePrefix(t, p) ==
    IF StartsWith(t, p) THEN SubSeq(t, Len(p) + 1, Len(t)) ELSE t

\* str.removesuffix(p)
RemoveSuffix(t, p) ==
    IF EndsWith(t, p) THEN SubSeq(t, 1, Len(t) - Len(p)) ELSE t

\* the backquote character (U+0060), which the lexer takes in no string
Tick == "BACKQUOTE"

Fence == <<Tick, Tick, Tick>>
FenceJson == Fence \o <<"j", "s", "o", "n">>

\* faulty variant: only the bare fence is removed, the tag stays
CleanedTextKeepsTag(text) ==
    LET cleaned == Strip(text)
    IN IF StartsWith(cleaned, Fence)
       THEN Strip(RemoveSuffix(RemovePrefix(cleaned, Fence), Fence))
       ELSE cleaned

\* _parse_json_safely up to json.loads: the text handed to the JSON parser
CleanedText(text) ==
    LET cleaned == Strip(text)
    IN IF StartsWith(cleaned, Fence)
       THEN Strip(RemoveSuffix(
                    RemovePrefix(RemovePrefix(cleaned, FenceJson), Fence),
                    Fence))
       ELSE cleaned

\* json.loads(t): a JSON document of the alphabet is a run of the digit 1,
\* with white space around it; anything else raises JSONDecodeError
JsonError == <<"error">>
JsonLoads(t) ==
    IF Strip(t) # <<>> /\ \A i \in 1..Len(Strip(t)) : Strip(t)[i] = "1"
    THEN <<"json", Strip(t)>>
    ELSE JsonError

\* _parse_json_safely(text)
parse_json_safely(text) == JsonLoads(CleanedText(text))

----------------------------------------------------------------------------
(* File system.  A path is the sequence of its components below the root;  *)
(* an entry of fs is a path with a flag telling whether it is a directory. *)

TempRoot == <<"tmp">>
TmpNames == {"tmpk3x9"}

\* upload file names: none, a plain name, a name that climbs out of the
\* directory, an absolute path, a name inside a directory that is not there
NoFilename == [abs |-> FALSE, parts |-> <<>>]
Filenames ==
    { NoFilename,
      [abs |-> FALSE, parts |-> <<"rx.png">>],
      [abs |-> FALSE, parts |-> <<"..", "leak.png">>],
      [abs |-> TRUE, parts |-> <<"tmp", "leak.png">>],
      [abs |-> FALSE, parts |-> <<"scans", "rx.png">>] }

\* file.filename or "upload.png"
UploadName(filename) ==
    IF filename = NoFilename
    THEN [abs |-> FALSE, parts |-> <<"upload.png">>]
    ELSE filename

\* os.path.join(tmpdir, filename): an absolute second part replaces the first
PathJoin(dir, filename) ==
    IF filename.abs THEN filename.parts ELSE dir \o filename.parts

\* the path the kernel resolves: each ".." steps to the parent
RECURSIVE Resolve(_, _)
Resolve(parts, acc) ==
    IF parts = <<>> THEN acc
    ELSE IF Head(parts) = ".."
         THEN Resolve(Tail(parts),
                      IF acc = <<>> THEN acc ELSE SubSeq(acc, 1, Len(acc) - 1))
         ELSE Resolve(Tail(parts), Append(acc, Head(parts)))

IsDir(f, path) == path = <<>> \/ [path |-> path, dir |-> TRUE] \in f

\* open(path, "wb") succeeds: the parent is a directory, the path is none
CanOpen(f, path) ==
    /\ path # <<>>
    /\ IsDir(f, SubSeq(path, 1, Len(path) - 1))
    /\ ~IsDir(f, path)

Under(dir, path) == Len(path) >= Len(dir) /\ SubSeq(path, 1, Len(dir)) = dir

\* shutil.rmtree(tmpdir)
RmTree(f, dir) == {e \in f : ~Under(dir, e.path)}

DirEntry(path) == [path |-> path, dir |-> TRUE]
FileEntry(path) == [path |-> path, dir |-> FALSE]

----------------------------------------------------------------------------
(* Scan pipeline *)

\* what client.predict gives: it raises, or returns a string or a sequence
OcrOutcomes ==
    { [kind |-> "raise", text |-> <<>>],
      [kind |-> "empty_list", text |-> <<>>],
      [kind |-> "str", text |-> <<>>],
      [kind |-> "list", text |-> <<" ", "\n">>],
      [kind |-> "list", text |-> <<"R", "x">>] }

\* what generate_content gives: it raises, or returns a response text
LlmOutcomes ==
    { [kind |-> "raise", text |-> <<>>],
      [kind |-> "text", text |-> FenceJson \o <<"\n", "1", "\n">> \o Fence],
      [kind |-> "text", text |-> <<"n", "o">>] }

Extraction(success, data, error, invoked) ==
    [success |-> success, data |-> data, error |-> error, invoked |-> invoked]

NoData == <<"none">>

\* faulty variant: the client is built without asking for the API key
extract_without_key_check(ocr_text, genai_installed, key_set, llm) ==
    IF ocr_text = <<>> \/ Strip(ocr_text) = <<>>
    THEN Extraction(FALSE, NoData, "OCR text is empty", "none")
    ELSE IF ~genai_installed
    THEN Extraction(FALSE, NoData,
                    "google.genai is not installed in the environment", "init")
    ELSE IF llm.kind = "raise"
    THEN Extraction(FALSE, NoData, "generate_content failed", "generate")
    ELSE IF parse_json_safely(llm.text) = JsonError
    THEN Extraction(FALSE, NoData, "Expecting value", "generate")
    ELSE Extraction(TRUE, parse_json_safely(llm.text), Null, "generate")

\* faulty variant: the empty-text test is missing
extract_without_blank_check(ocr_text, genai_installed, key_set, llm) ==
    IF ~genai_installed
    THEN Extraction(FALSE, NoData,
                    "google.genai is not installed in the environment", "init")
    ELSE IF ~key_set
    THEN Extraction(FALSE, NoData, "GEMINI_API_KEY is not configured", "init")
    ELSE IF llm.kind = "raise"
    THEN Extraction(FALSE, NoData, "generate_content failed", "generate")
    ELSE IF parse_json_safely(llm.text) = JsonError
    THEN Extraction(FALSE, NoData, "Expecting value", "generate")
    ELSE Extraction(TRUE, parse_json_safely(llm.text), Null, "generate")

\* extract_structured_data(ocr_text); invoked tells how far the extraction
\* collaborator was used: "none", "init" (_initialize_gemini_client was
\* called) or "generate" (generate_content was called)
extract_structured_data(ocr_text, genai_installed, key_set, llm) ==
    IF ocr_text = <<>> \/ Strip(ocr_text) = <<>>
    THEN Extraction(FALSE, NoData, "OCR text is empty", "none")
    ELSE IF ~genai_installed
    THEN Extraction(FALSE, NoData,
                    "google.genai is not installed in the environment", "init")
    ELSE IF ~key_set
    THEN Extraction(FALSE, NoData, "GEMINI_API_KEY is not configured", "init")
    ELSE IF llm.kind = "raise"
    THEN Extraction(FALSE, NoData, "generate_content failed", "generate")
    ELSE IF parse_json_safely(llm.text) = JsonError
    THEN Extraction(FALSE, NoData, "Expecting value", "generate")
    ELSE Extraction(TRUE, parse_json_safely(llm.text), Null, "generate")

ScanResponse(status, patient_id, body, wrote, key_set, invoked, ocr) ==
    [Response("scan", status, patient_id, NoId, body, 0)
        EXCEPT !.wrote = wrote, !.keySet = key_set, !.invoked = invoked,
               !.ocr = ocr]

NoOcr == <<"none">>

\* the handler from "result = client.predict(...)" to its return or raise
ScanOcr(patient_id, wrote, key_set, ocr, genai_installed, llm) ==
    IF ocr.kind \in {"raise", "empty_list"}
    THEN ScanResponse(500, patient_id, NoBody, wrote, key_set, "none", NoOcr)
    ELSE LET extraction == extract_structured_data(ocr.text, genai_installed,
                                                   key_set, llm)
         IN [ScanResponse(200, patient_id,
                {[success |-> extraction.success, ocr_text |-> ocr.text,
                  data |-> extraction.data, error |-> extraction.error]},
                wrote, key_set, extraction.invoked, <<"text", ocr.text>>)
              EXCEPT !.raised = extraction.error]

ScanPatientIds == {<<"canon", 1>>, <<"canon", 3>>, BadId}

\* POST /{patient_id}/scan
scan_and_extract_prescription(patient_id, key_set) ==
    /\ Idle
    /\ \/ \E name \in TmpNames, filename \in Filenames :
            LET tmpdir == TempRoot \o <<name>>
                fs1 == fs \cup {DirEntry(tmpdir)}
                tmp_path == Resolve(PathJoin(tmpdir, UploadName(filename)), <<>>)
                fs2 == fs1 \cup {FileEntry(tmp_path)}
                wrote == {tmpdir, tmp_path}
            IN /\ DirEntry(tmpdir) \notin fs
               /\ IF CanOpen(fs1 \ {FileEntry(tmp_path)}, tmp_path)
                  THEN /\ fs' = RmTree(fs2, tmpdir)
                       /\ \/ \E ocr \in OcrOutcomes :
                               IF Strip(ocr.text) # <<>>
                               THEN \E genai_installed \in BOOLEAN :
                                      \E llm \in
                                          IF genai_installed /\ key_set
                                          THEN LlmOutcomes
                                          ELSE {CHOOSE l \in LlmOutcomes : TRUE} :
                                        resp' = ScanOcr(patient_id, wrote,
                                                  key_set, ocr, genai_installed,
                                                  llm)
                               ELSE resp' = ScanOcr(patient_id, wrote, key_set,
                                              ocr, TRUE,
                                              CHOOSE l \in LlmOutcomes : TRUE)
                          \/ \* shutil.copyfileobj raises
                             resp' = ScanResponse(500, patient_id, NoBody,
                                        wrote, key_set, "none", NoOcr)
                  ELSE \* open() raises: past the finally, out of the handler
                       /\ resp' = ScanResponse(500, patient_id, NoBody,
                                      {tmpdir}, key_set, "none", NoOcr)
                       /\ fs' = RmTree(fs1, tmpdir)
       \/ \* Client is None or handle_file is None
          /\ resp' = ScanResponse(500, patient_id, NoBody, {}, key_set, "none",
                                  NoOcr)
          /\ UNCHANGED fs
    /\ UNCHANGED <<patients, store, usedIds, created, deleted, dreq, parsed>>

----------------------------------------------------------------------------
(* Fence stripping on its own: every text of the alphabet, fenced or not.  *)

Alphabet == {Tick, "j", "s", "o", "n", " ", "1"}
Texts(n) == UNION {[1..k -> Alphabet] : k \in 0..n}
Margins == {<<>>, <<" ">>, <<"\n", " ">>}

NoParse == [text |-> <<>>, inner |-> <<>>, fenced |-> FALSE, tagged |-> FALSE,
            out |-> <<>>, done |-> FALSE]

\* a response that wraps inner in an opening and a closing fence
parse_fenced(inner, tagged, lead, trail) ==
    /\ ~parsed.done
    /\ LET text == lead \o (IF tagged THEN FenceJson ELSE Fence) \o inner
                        \o Fence \o trail
       IN parsed' = [text |-> text, inner |-> inner, fenced |-> TRUE,
                     tagged |-> tagged, out |-> CleanedText(text), done |-> TRUE]
    /\ UNCHANGED <<patients, store, usedIds, created, deleted, dreq, fs, resp>>

\* a response text as it comes
parse_plain(text, lead, trail) ==
    /\ ~parsed.done
    /\ parsed' = [text |-> lead \o text \o trail, inner |-> text,
                  fenced |-> FALSE, tagged |-> FALSE,
                  out |-> CleanedText(lead \o text \o trail), done |-> TRUE]
    /\ UNCHANGED <<patients, store, usedIds, created, deleted, dreq, fs, resp>>

----------------------------------------------------------------------------
(* Specifications *)

Init ==
    /\ patients = {1, 2}
    /\ store = {IngestedRecord}
    /\ usedIds = {IngestedRecord.id}
    /\ created = {}
    /\ deleted = {}
    /\ dreq = [w \in DeleteWorkers |-> NoDelete]
    /\ fs = {DirEntry(TempRoot)}
    /\ resp = NoResp
    /\ parsed = NoParse

RecordNext ==
    \/ list_all_patients_with_records
    \/ \E p \in PatientIdStrs, t \in RecordTypes \cup {NoFilter},
          h \in Hospitals \cup {NoFilter} : list_health_records(p, t, h)
    \/ \E p \in PatientIdStrs : get_patient_health_summary(p)
    \/ \E p \in PatientIdStrs : list_external_health_records(p)
    \/ \E p \in PatientIdStrs, r \in RecordIdStrs : get_health_record_details(p, r)
    \/ \E p \in PatientIdStrs, b \in CreateBodies : create_health_record(p, b)
    \/ \E w \in DeleteWorkers, p \in PatientIdStrs, r \in RecordIdStrs :
          delete_lookup(w, p, r)
    \/ \E w \in DeleteWorkers : delete_commit(w)
    \/ \E p \in PatientIdStrs, t \in RecordTypes : get_records_by_type(p, t)
    \/ \E p \in PatientIdStrs, h \in Hospitals : get_records_from_hospital(p, h)
    \/ Deliver

ScanNext ==
    \/ \E p \in ScanPatientIds, k \in BOOLEAN : scan_and_extract_prescription(p, k)
    \/ Deliver

ParseNext ==
    /\ ~parsed.done
    /\ \/ \E inner \in Texts(MaxInner), tagged \in BOOLEAN, lead \in Margins,
             trail \in Margins : parse_fenced(inner, tagged, lead, trail)
       \/ \E text \in Texts(MaxInner), lead \in Margins, trail \in Margins :
             parse_plain(text, lead, trail)

Next == RecordNext \/ ScanNext

\* every endpoint of the router
Spec == Init /\ [][Next]_vars

\* _parse_json_safely on its own
SpecParse == Init /\ [][ParseNext]_vars

----------------------------------------------------------------------------
(* Properties *)

WellFormed(s) == UUIDParse(s) # Invalid
PatientScopedOps ==
    {"list", "summary", "external", "get", "create", "delete", "by_type",
     "from_hospital", "scan"}
ListOps == {"list", "external", "by_type", "from_hospital"}

\* C1: a patient-scoped request whose patient id is well formed (and whose
\* record id, if it has one, is well formed too) but names no Patient is
\* answered 404; a list endpoint answers 200 with an empty list only for a
\* patient that exists.
C1_UnknownPatientIsNotFound ==
    /\ ( /\ resp.op \in PatientScopedOps
         /\ WellFormed(resp.pid)
         /\ UUIDParse(resp.pid) \notin patients
         /\ (resp.rid = NoId \/ WellFormed(resp.rid)) )
       => resp.status = 404
    /\ (resp.op \in ListOps /\ resp.status = 200 /\ resp.body = {})
       => UUIDParse(resp.pid) \in patients

\* C2: a request that carries a malformed patient id or record id is
\* answered 400, and has made no store access when it is.
C2_MalformedIdIsInvalidArgument ==
    ( /\ resp.op \in PatientScopedOps
      /\ (~WellFormed(resp.pid) \/ (resp.rid # NoId /\ ~WellFormed(resp.rid))) )
    => (resp.status = 400 /\ resp.storeOps = 0)

\* the response dict a created record must come back as, its date rendered
\* by the given function of the request's recordDate
Expected(c, date) ==
    [id |-> UUIDStr(c.id), type |-> c.recordType, date |-> date,
     sourceHospital |-> Null, data |-> c.data, requestId |-> Null]

FetchedCreated(c) ==
    /\ resp.op = "get"
    /\ UUIDParse(resp.rid) = c.id
    /\ UUIDParse(resp.pid) = c.patient_id
    /\ <<c.patient_id, c.id>> \notin deleted

\* the id of a created record is new to the store and is not the request's
FreshlyIdentified ==
    (resp.op = "create" /\ resp.status = 200)
    => \A b \in resp.body :
          /\ UUIDParse(b.id) \notin resp.priorIds
          /\ UUIDParse(b.id) # UUIDParse(resp.clientId)
          /\ \E c \in created : c.id = UUIDParse(b.id)

\* C3 as stated: fetching a created record gives back the type, the payload
\* and the very recordDate of the request, with sourceHospital null, under
\* an id that is new to the store and is not the client's.
C3_RoundTripSameDateText ==
    /\ \A c \in created :
          FetchedCreated(c)
          => (resp.status = 200 /\ resp.body = {Expected(c, c.recordDate)})
    /\ FreshlyIdentified

\* C3 as amended: the same, but the date comes back as the ISO rendering of
\* the datetime the request's recordDate denotes (so "2024-01-15" comes back
\* as "2024-01-15T00:00:00").
C3_RoundTrip ==
    /\ \A c \in created :
          FetchedCreated(c)
          => /\ resp.status = 200
             /\ resp.body = {Expected(c, IsoFormat(FromIsoFormat(c.recordDate)))}
             /\ \A b \in resp.body :
                   FromIsoFormat(b.date) = FromIsoFormat(c.recordDate)
    /\ FreshlyIdentified

C3_Witness ==
    \E c \in created :
        /\ FetchedCreated(c)
        /\ resp.status = 200
        /\ c.recordDate = "2024-01-15"
        /\ IngestedRecord \in store

\* C4: once a delete of a record has reported DELETED, a fetch of that
\* record under the same patient id and record id is answered 404.
C4_DeletedStaysNotFound ==
    ( /\ resp.op = "get"
      /\ WellFormed(resp.pid) /\ WellFormed(resp.rid)
      /\ <<UUIDParse(resp.pid), UUIDParse(resp.rid)>> \in deleted )
    => resp.status = 404

C4_Witness ==
    /\ resp.op = "get"
    /\ <<UUIDParse(resp.pid), UUIDParse(resp.rid)>> \in deleted
    /\ resp.status = 404
    /\ \E c \in created : c.id = UUIDParse(resp.rid)
    /\ store # {}

\* C5: a delete request whose record was removed by another delete request
\* between its lookup and its commit is answered 404 (so that of two
\* interleaved deletes of one record exactly one reports DELETED, and none
\* ends in a 500).
C5_SecondDeleteIsNotFound ==
    (resp.op = "delete" /\ resp.stale) => resp.status = 404

\* C6: when a scan request has completed, no path it created exists.
C6_ScanLeavesNothing ==
    resp.op = "scan" => \A p \in resp.wrote : \A e \in fs : e.path # p

KeyMissing == "GEMINI_API_KEY is not configured"

\* C7 as stated: a scan that, made while the API key is not configured,
\* ends in the configuration error is answered 500.
C7_MissingKeyIs500 ==
    (resp.op = "scan" /\ ~resp.keySet /\ resp.raised = KeyMissing)
    => resp.status = 500

\* C7 as amended: a scan made while the API key is not configured never
\* calls generate_content and never succeeds; the missing key is caught
\* inside the extraction step and reported in-band, as a 200 response with
\* success = false, data = null and the error "GEMINI_API_KEY is not
\* configured", whenever OCR returned non-blank text and the genai library
\* is there; the request is a 500 only when it failed before extraction.
C7_MissingKeyIsInBand ==
    (resp.op = "scan" /\ ~resp.keySet)
    => /\ resp.invoked # "generate"
       /\ resp.status \in {200, 500}
       /\ resp.status = 500 => resp.invoked = "none"
       /\ resp.status = 200
          => \A b \in resp.body :
                /\ ~b.success /\ b.data = NoData /\ b.error # Null
                /\ (Strip(b.ocr_text) # <<>>
                      /\ b.error # "google.genai is not installed in the environment")
                   => b.error = KeyMissing

C7_Witness ==
    /\ resp.op = "scan" /\ ~resp.keySet /\ resp.status = 200
    /\ \E b \in resp.body : b.error = KeyMissing /\ ~b.success

\* C8: when OCR returned an empty or blank text, the extraction collaborator
\* is not used at all and the response is a 200 with success = false,
\* data = null and an error message.
C8_BlankOcrShortCircuits ==
    ( /\ resp.op = "scan"
      /\ resp.ocr # NoOcr
      /\ Strip(resp.ocr[2]) = <<>> )
    => /\ resp.invoked = "none"
       /\ resp.status = 200
       /\ resp.body # {}
       /\ \A b \in resp.body :
             ~b.success /\ b.data = NoData /\ b.error # Null

C8_Witness ==
    /\ resp.op = "scan"
    /\ resp.ocr = <<"text", <<" ", "\n">>>>
    /\ resp.keySet
    /\ resp.status = 200
    /\ \E b \in resp.body : b.error = "OCR text is empty"

\* a fenced text the stripping step reads differently from how it was built:
\* a tagged fence around a text that opens with a fence of its own, or a
\* bare fence around a text that opens with the letters of the tag
Misread(p) ==
    \/ p.tagged /\ StartsWith(p.inner, Fence)
    \/ ~p.tagged /\ StartsWith(p.inner, <<"j", "s", "o", "n">>)

PlainPassesThrough ==
    (parsed.done /\ ~StartsWith(Strip(parsed.text), Fence))
    => parsed.out = Strip(parsed.text)

\* C9 as stated: for every inner text wrapped in a bare or tagged opening
\* fence and a closing fence, the parser is handed the inner text (trimmed);
\* a text with no leading fence is handed over trimmed and otherwise as is.
C9_FenceStrippedAlways ==
    /\ (parsed.done /\ parsed.fenced) => parsed.out = Strip(parsed.inner)
    /\ PlainPassesThrough

\* C9 as amended: the same, for every inner text except one that opens with
\* a fence under a tagged fence or with "json" under a bare fence.
C9_FenceStripped ==
    /\ (parsed.done /\ parsed.fenced /\ ~Misread(parsed))
       => parsed.out = Strip(parsed.inner)
    /\ PlainPassesThrough

C9_Witness ==
    /\ parsed.done /\ parsed.fenced /\ parsed.tagged
    /\ parsed.inner = <<" ", "1", "1", " ">>
    /\ parsed.text # FenceJson \o parsed.inner \o Fence
    /\ parsed.out = <<"1", "1">>

\* the row a successful create request stored
RowOf(c) == NewRecord(c.id, c.patient_id, c)

\* a delete request for row r, found by its SELECT, commits in this step
DeleteOf(r) ==
    \E w \in DeleteWorkers :
        /\ dreq[w].pc = "found"
        /\ UUIDParse(dreq[w].rid) = r.id
        /\ UUIDParse(dreq[w].pid) = r.patient_id
        /\ dreq'[w].pc = "idle"
        /\ resp'.op = "delete" /\ resp'.status = 200

\* C10: stored records have distinct ids, every stored record is the
\* ingested one or has exactly the fields its create request gave it, and a
\* record leaves the store only in the commit of a delete request that
\* names it.
C10_RecordsImmutable ==
    /\ [](/\ \A r1, r2 \in store : r1.id = r2.id => r1 = r2
          /\ \A r \in store :
                r = IngestedRecord \/ \E c \in created : r = RowOf(c))
    /\ [][\A r \in store : r \notin store' => DeleteOf(r)]_vars

C10_Witness ==
    /\ \E r \in store : r.source_hospital = Null /\ r.patient_id = 1
    /\ <<1, 1>> \in deleted
    /\ resp.op = "delete" /\ resp.status = 200

\* the request named a stored record, under a well-formed id of a patient
\* that does not own it
OtherPatientsRecord ==
    /\ WellFormed(resp.pid) /\ WellFormed(resp.rid)
    /\ \E r \in store :
          r.id = UUIDParse(resp.rid) /\ r.patient_id # UUIDParse(resp.pid)

\* C11: a get or a delete that names a stored record under the well-formed
\* id of another patient is answered 404, and a step that answers a delete
\* with 400 or 404 leaves the stored records as they were.
C11_OwnerOnly ==
    /\ []((resp.op \in {"get", "delete"} /\ OtherPatientsRecord)
             => resp.status = 404)
    /\ [][(resp'.op = "delete" /\ resp'.status \in {400, 404})
             => store' = store]_vars

C11_Witness ==
    /\ resp.op = "delete" /\ resp.status = 404
    /\ OtherPatientsRecord
    /\ UUIDParse(resp.pid) \in patients
    /\ \E r \in store : r.source_hospital = Null

====
